---- MODULE Spec2Model ----
(***************************************************************************)
(* A model of two files of the Django fork:                                *)
(*   django/db/backends/sqlite3/creation.py  (DatabaseCreation), and       *)
(*   tests/runtests.py                       (the test-runner driver).     *)
(*                                                                         *)
(* Part I models the calls of DatabaseCreation on a file system, Part II   *)
(* the script from its dispatch on, Part III the body of bisect_tests,     *)
(* Part IV the body of paired_tests.                                       *)
(* "/" on integers is the integer division of Python 2: runtests.py uses   *)
(* its quotient as a slice index (lines 243-245).                          *)
(***************************************************************************)
EXTENDS Integers, Sequences, FiniteSets, TLC

\* ---- the state of creation.py (Part I) ------------------------------------
VARIABLES
    conns,       \* alias -> settings_dict (NAME, TEST_NAME) of the connection
    files,       \* the file system: path -> content, for the paths that exist
    last,        \* the last DatabaseCreation call: arguments, events, result
    proc,        \* how the process stands: running, exited, exception
    signatures   \* alias -> result of test_db_signature(), <<>> before the call

dbvars == <<conns, files, last, proc, signatures>>

\* ---- the state of runtests.py run as a script (Part II) -------------------
VARIABLES
    options,     \* the parsed command line: bisect, pair, modules, verbosity, parallel
    settings,    \* django.conf.settings: attribute -> value; INSTALLED_APPS is a
                 \* reference to a list object
    lists,       \* the list objects: name -> content
    state,       \* the dict setup returned
    pc,          \* where the script is
    out,         \* what was printed, in order
    handlers,    \* number of handlers on the 'py.warnings' logger
    failing,     \* the labels that make a run fail when run with the named test
    failures,    \* what test_runner.run_tests returned
    before,      \* the values of the settings when setup was called
    exit_status  \* the status the script ended with, -1 while it runs

runvars == <<options, settings, lists, state, pc, out, handlers, failing, failures,
             before, exit_status>>

\* ---- the state of bisect_tests below its setup call (Part III) ------------
VARIABLES
    bpc,              \* where bisect_tests is: start, loop, report, done
    test_labels,      \* the candidate labels
    bisection_label,  \* the named test
    iteration,        \* the pass number printed
    report,           \* what bisect_tests printed, in order
    failed_with,      \* the labels that were part of a failing subprocess run
    passes,           \* how many times the loop body ran
    initial_len,      \* len(test_labels) when the loop was first reached
    prev_len          \* len(test_labels) when the last loop body started

bisvars == <<bpc, test_labels, bisection_label, iteration, report, failed_with,
             passes, initial_len, prev_len>>

\* ---- the state of paired_tests below its setup call (Part IV) ------------
VARIABLES
    pair_labels,      \* the local test_labels of paired_tests
    pair_i            \* how many labels the for loop has been through

pairvars == <<pair_labels, pair_i>>

vars == <<dbvars, runvars, bisvars, pairvars>>

(***************************************************************************)
(* Part I.  django/db/backends/sqlite3/creation.py                         *)
(***************************************************************************)

\* ---- values --------------------------------------------------------------
None == "<None>"
MEMORY == ":memory:"
Aliases == {"default", "other"}
FileNames == {"db.sqlite3", "data"}
DatabaseNames == {MEMORY} \cup FileNames
TestFileNames == {"test.sqlite3", "t2.sqlite3"}
TestNames == {None, "", MEMORY} \cup TestFileNames
Verbosities == {0, 1}
Answers == {"yes", "no"}
Numbers == {1, 2}                 \* the clone numbers tried

\* Python truthiness of an optional string
Truthy(s) == s # None /\ s # ""

\* os.path.splitext on the names of the model: (root, ext), ext with its dot
splitext(name) ==
    CASE name = "db.sqlite3"   -> <<"db", ".sqlite3">>
      [] name = "test.sqlite3" -> <<"test", ".sqlite3">>
      [] name = "t2.sqlite3"   -> <<"t2", ".sqlite3">>
      [] OTHER                 -> <<name, "">>

\* connection.is_in_memory_db(name): sqlite3/base.py, not among the sources
is_in_memory_db(name) == name = MEMORY

\* os.access(path, os.F_OK)
os_access(fs, path) == path \in DOMAIN fs

\* os.remove(path), when it succeeds
os_remove(fs, path) == [p \in (DOMAIN fs) \ {path} |-> fs[p]]

\* shutil.copy(src, dst), when it succeeds
shutil_copy(fs, src, dst) == [p \in (DOMAIN fs) \cup {dst} |-> IF p = dst THEN fs[src] ELSE fs[p]]

\* what a call did, in order: kind is one of
\*   "stdout", "stderr", "input", "remove", "remove_failed", "copy", "copy_failed"
Event(kind, arg) == [kind |-> kind, arg |-> arg]

\* the outcome of a call: the file system after it, its events, the status
\* passed to sys.exit (0: it returned), the exception that escaped, the value
Outcome(fs, events, exit, ret) ==
    [files |-> fs, events |-> events, exit |-> exit, raised |-> FALSE, ret |-> ret]

Raised(fs, events) ==
    [files |-> fs, events |-> events, exit |-> 0, raised |-> TRUE, ret |-> None]

\* DatabaseCreation._get_test_db_name
_get_test_db_name(settings_dict) ==
    LET test_database_name == settings_dict.TEST_NAME
    IN  IF Truthy(test_database_name) /\ test_database_name # MEMORY
        THEN test_database_name
        ELSE MEMORY

\* a variant that asks the user even with autoclobber
_create_test_db_always_prompts(fs, alias, settings_dict, verbosity, autoclobber, confirm, removeFails) ==
    LET test_database_name == _get_test_db_name(settings_dict)
        ev1 == IF verbosity >= 1 THEN <<Event("stdout", "Destroying old test database")>> ELSE <<>>
        ev2 == ev1 \o <<Event("input", test_database_name)>>
    IN  IF test_database_name # MEMORY /\ os_access(fs, test_database_name)
        THEN IF confirm = "yes"
             THEN IF removeFails
                  THEN Outcome(fs, ev2 \o <<Event("remove_failed", test_database_name),
                                            Event("stderr", "Got an error deleting the old test database")>>,
                               2, None)
                  ELSE Outcome(os_remove(fs, test_database_name),
                               ev2 \o <<Event("remove", test_database_name)>>, 0, test_database_name)
             ELSE Outcome(fs, ev2 \o <<Event("stdout", "Tests cancelled.")>>, 1, None)
        ELSE Outcome(fs, IF test_database_name # MEMORY THEN ev1 ELSE <<>>, 0, test_database_name)

\* DatabaseCreation._create_test_db(verbosity, autoclobber); confirm is what
\* the user types when asked, removeFails whether os.remove raises
_create_test_db(fs, alias, settings_dict, verbosity, autoclobber, confirm, removeFails) ==
    LET test_database_name == _get_test_db_name(settings_dict)
    IN  IF test_database_name # MEMORY
        THEN LET ev1 == IF verbosity >= 1
                        THEN <<Event("stdout", "Destroying old test database")>>
                        ELSE <<>>
             IN  IF os_access(fs, test_database_name)
                 THEN LET ev2 == IF ~autoclobber
                                 THEN ev1 \o <<Event("input", test_database_name)>>
                                 ELSE ev1
                      IN  IF autoclobber \/ confirm = "yes"
                          THEN IF removeFails
                               THEN Outcome(fs,
                                        ev2 \o <<Event("remove_failed", test_database_name),
                                                 Event("stderr", "Got an error deleting the old test database")>>,
                                        2, None)
                               ELSE Outcome(os_remove(fs, test_database_name),
                                        ev2 \o <<Event("remove", test_database_name)>>,
                                        0, test_database_name)
                          ELSE Outcome(fs, ev2 \o <<Event("stdout", "Tests cancelled.")>>, 1, None)
                 ELSE Outcome(fs, ev1, 0, test_database_name)
        ELSE Outcome(fs, <<>>, 0, test_database_name)

\* DatabaseCreation.get_test_db_clone_settings(number)
get_test_db_clone_settings(settings_dict, number) ==
    LET orig_settings_dict == settings_dict
        source_database_name == orig_settings_dict.NAME
    IN  IF is_in_memory_db(source_database_name)
        THEN orig_settings_dict
        ELSE LET root == splitext(orig_settings_dict.NAME)[1]
                 ext  == splitext(orig_settings_dict.NAME)[2]
             IN  [orig_settings_dict EXCEPT
                     !.NAME = root \o "_" \o ToString(number) \o "." \o ext]

\* a variant without the in-memory gate of line 85
_clone_test_db_ungated(fs, settings_dict, number, verbosity, keepdb, removeFails, copyFails) ==
    LET source_database_name == settings_dict.NAME
        target_database_name == source_database_name \o "_" \o ToString(number)
    IN  IF os_access(fs, target_database_name)
        THEN Outcome(os_remove(fs, target_database_name),
                     <<Event("remove", target_database_name)>>, 0, None)
        ELSE IF copyFails \/ ~os_access(fs, source_database_name)
             THEN Outcome(fs, <<Event("copy_failed", target_database_name),
                                Event("stderr", "Got an error cloning the test database")>>, 2, None)
             ELSE Outcome(shutil_copy(fs, source_database_name, target_database_name),
                          <<Event("copy", target_database_name)>>, 0, None)

\* a variant without the keepdb return of lines 88-89
_clone_test_db_ignores_keepdb(fs, settings_dict, number, verbosity, keepdb, removeFails, copyFails) ==
    LET source_database_name == settings_dict.NAME
        target_database_name == get_test_db_clone_settings(settings_dict, number).NAME
        copied == IF copyFails \/ ~os_access(fs, source_database_name)
                  THEN Outcome(fs, <<Event("copy_failed", target_database_name),
                                     Event("stderr", "Got an error cloning the test database")>>, 2, None)
                  ELSE Outcome(shutil_copy(fs, source_database_name, target_database_name),
                               <<Event("copy", target_database_name)>>, 0, None)
    IN  IF is_in_memory_db(source_database_name) THEN Outcome(fs, <<>>, 0, None) ELSE copied

\* a variant that goes on to the copy when os.remove failed
_clone_test_db_copies_after_failed_remove(fs, settings_dict, number, verbosity, keepdb, removeFails, copyFails) ==
    LET source_database_name == settings_dict.NAME
        target_database_name == get_test_db_clone_settings(settings_dict, number).NAME
        removed == os_access(fs, target_database_name) /\ ~keepdb
        ev == IF removed
              THEN <<Event(IF removeFails THEN "remove_failed" ELSE "remove", target_database_name)>>
              ELSE <<>>
        fs1 == IF removed /\ ~removeFails THEN os_remove(fs, target_database_name) ELSE fs
    IN  IF is_in_memory_db(source_database_name) \/ (os_access(fs, target_database_name) /\ keepdb)
        THEN Outcome(fs, <<>>, 0, None)
        ELSE IF copyFails \/ ~os_access(fs1, source_database_name)
             THEN Outcome(fs1, ev \o <<Event("copy_failed", target_database_name),
                                       Event("stderr", "Got an error cloning the test database")>>, 2, None)
             ELSE Outcome(shutil_copy(fs1, source_database_name, target_database_name),
                          ev \o <<Event("copy", target_database_name)>>, 0, None)

\* DatabaseCreation._clone_test_db(number, verbosity, keepdb); removeFails and
\* copyFails are whether os.remove and shutil.copy raise (shutil.copy also
\* raises when the source file does not exist)
_clone_test_db(fs, settings_dict, number, verbosity, keepdb, removeFails, copyFails) ==
    LET source_database_name == settings_dict.NAME
        target_database_name == get_test_db_clone_settings(settings_dict, number).NAME
        copy(fs1, ev) ==
            IF copyFails \/ ~os_access(fs1, source_database_name)
            THEN Outcome(fs1,
                     ev \o <<Event("copy_failed", target_database_name),
                             Event("stderr", "Got an error cloning the test database")>>,
                     2, None)
            ELSE Outcome(shutil_copy(fs1, source_database_name, target_database_name),
                     ev \o <<Event("copy", target_database_name)>>, 0, None)
    IN  IF ~is_in_memory_db(source_database_name)
        THEN IF os_access(fs, target_database_name)
             THEN IF keepdb
                  THEN Outcome(fs, <<>>, 0, None)
                  ELSE LET ev1 == IF verbosity >= 1
                                  THEN <<Event("stdout", "Destroying old test database")>>
                                  ELSE <<>>
                       IN  IF removeFails
                           THEN Outcome(fs,
                                    ev1 \o <<Event("remove_failed", target_database_name),
                                             Event("stderr", "Got an error deleting the old test database")>>,
                                    2, None)
                           ELSE copy(os_remove(fs, target_database_name),
                                     ev1 \o <<Event("remove", target_database_name)>>)
             ELSE copy(fs, <<>>)
        ELSE Outcome(fs, <<>>, 0, None)

\* DatabaseCreation._destroy_test_db(test_database_name, verbosity): os.remove
\* is not guarded, its exception escapes
_destroy_test_db(fs, test_database_name, verbosity, removeFails) ==
    IF Truthy(test_database_name) /\ test_database_name # MEMORY
    THEN IF removeFails \/ ~os_access(fs, test_database_name)
         THEN Raised(fs, <<Event("remove_failed", test_database_name)>>)
         ELSE Outcome(os_remove(fs, test_database_name),
                      <<Event("remove", test_database_name)>>, 0, None)
    ELSE Outcome(fs, <<>>, 0, None)

\* DatabaseCreation.test_db_signature
test_db_signature(alias, settings_dict) ==
    LET test_dbname == _get_test_db_name(settings_dict)
        sig == <<settings_dict.NAME>>
    IN  IF test_dbname = MEMORY THEN Append(sig, alias) ELSE sig

\* ---- the state machine of Part I ------------------------------------------

SettingsDicts == [NAME : DatabaseNames, TEST_NAME : TestNames]

\* the clone targets of the file databases
CloneNames(numbers) ==
    {get_test_db_clone_settings([NAME |-> n, TEST_NAME |-> None], k).NAME :
        n \in FileNames, k \in numbers}

\* content a file has before any call
Original(path) == "content of " \o path

NoCall ==
    [op |-> "none", alias |-> "default", number |-> 0, verbosity |-> 0,
     keepdb |-> FALSE, autoclobber |-> FALSE, confirm |-> "no",
     before |-> <<>>, events |-> <<>>, exit |-> 0, raised |-> FALSE,
     ret |-> None, settings |-> [NAME |-> MEMORY, TEST_NAME |-> None]]

Running == "running"

\* the state a call leaves the process in
After(outcome) ==
    IF outcome.raised THEN "exception"
    ELSE IF outcome.exit # 0 THEN "exited"
    ELSE Running

\* the files a connection's calls can meet: its database, its test database
\* and a clone left by an earlier run
FilesOf(settings_dict) ==
    ({settings_dict.NAME, settings_dict.TEST_NAME,
      get_test_db_clone_settings(settings_dict, 1).NAME}
        \cap (FileNames \cup TestFileNames \cup CloneNames({1})))

InitDb ==
    /\ \E d \in SettingsDicts :
          /\ conns = [a \in Aliases |-> IF a = "default" THEN d
                                       ELSE [NAME |-> MEMORY, TEST_NAME |-> None]]
          /\ \E existing \in SUBSET FilesOf(d) :
                files = [p \in existing |-> Original(p)]
    /\ last = NoCall
    /\ proc = Running
    /\ signatures = [a \in Aliases |-> <<>>]

CreateTestDb(alias, verbosity, autoclobber, confirm, removeFails) ==
    /\ proc = Running
    /\ LET o == _create_test_db(files, alias, conns[alias], verbosity, autoclobber, confirm, removeFails)
       IN  /\ files' = o.files
           /\ proc' = After(o)
           /\ last' = [NoCall EXCEPT !.op = "_create_test_db", !.alias = alias,
                          !.verbosity = verbosity, !.autoclobber = autoclobber,
                          !.confirm = confirm, !.before = files, !.events = o.events,
                          !.exit = o.exit, !.raised = o.raised, !.ret = o.ret,
                          !.settings = conns[alias]]
    /\ UNCHANGED <<conns, signatures, runvars, bisvars, pairvars>>

GetTestDbCloneSettings(alias, number) ==
    /\ proc = Running
    /\ last' = [NoCall EXCEPT !.op = "get_test_db_clone_settings", !.alias = alias,
                   !.number = number, !.before = files,
                   !.settings = get_test_db_clone_settings(conns[alias], number)]
    /\ UNCHANGED <<conns, files, proc, signatures, runvars, bisvars, pairvars>>

CloneTestDb(alias, number, verbosity, keepdb, removeFails, copyFails) ==
    /\ proc = Running
    /\ LET o == _clone_test_db(files, conns[alias], number, verbosity, keepdb, removeFails, copyFails)
       IN  /\ files' = o.files
           /\ proc' = After(o)
           /\ last' = [NoCall EXCEPT !.op = "_clone_test_db", !.alias = alias,
                          !.number = number, !.verbosity = verbosity, !.keepdb = keepdb,
                          !.before = files, !.events = o.events,
                          !.exit = o.exit, !.raised = o.raised, !.ret = o.ret,
                          !.settings = conns[alias]]
    /\ UNCHANGED <<conns, signatures, runvars, bisvars, pairvars>>

DestroyTestDb(alias, test_database_name, verbosity, removeFails) ==
    /\ proc = Running
    /\ LET o == _destroy_test_db(files, test_database_name, verbosity, removeFails)
       IN  /\ files' = o.files
           /\ proc' = After(o)
           /\ last' = [NoCall EXCEPT !.op = "_destroy_test_db", !.alias = alias,
                          !.verbosity = verbosity, !.before = files, !.events = o.events,
                          !.exit = o.exit, !.raised = o.raised, !.ret = test_database_name,
                          !.settings = conns[alias]]
    /\ UNCHANGED <<conns, signatures, runvars, bisvars, pairvars>>

TestDbSignature(alias) ==
    /\ proc = Running
    /\ signatures' = [signatures EXCEPT ![alias] = test_db_signature(alias, conns[alias])]
    /\ UNCHANGED <<conns, files, last, proc, runvars, bisvars, pairvars>>

\* the calls of one connection's DatabaseCreation, in any order, until the
\* process exits
NextDb ==
    \/ \E v \in Verbosities, ac \in BOOLEAN, c \in Answers, rf \in BOOLEAN :
          CreateTestDb("default", v, ac, c, rf)
    \/ \E k \in Numbers : GetTestDbCloneSettings("default", k)
    \/ \E k \in Numbers, v \in Verbosities, kd \in BOOLEAN, rf \in BOOLEAN, cf \in BOOLEAN :
          CloneTestDb("default", k, v, kd, rf, cf)
    \/ \E v \in Verbosities, rf \in BOOLEAN :
          DestroyTestDb("default", _get_test_db_name(conns["default"]), v, rf)

\* test_db_signature over every pair of connection settings
InitSig ==
    /\ conns \in [Aliases -> SettingsDicts]
    /\ files = <<>>
    /\ last = NoCall
    /\ proc = Running
    /\ signatures = [a \in Aliases |-> <<>>]

NextSig == \E a \in Aliases : TestDbSignature(a)

(***************************************************************************)
(* Part II.  tests/runtests.py                                             *)
(***************************************************************************)

\* ---- bounds of the model ------------------------------------------------
MaxModules == 2      \* most module labels on the command line
MaxFailures == 2     \* most failures a test run reports

\* ---- values --------------------------------------------------------------
Unset == "<unset>"

ALWAYS_INSTALLED_APPS ==
    << "django.contrib.contenttypes",
       "django.contrib.auth",
       "django.contrib.sites",
       "django.contrib.flatpages",
       "django.contrib.redirects",
       "django.contrib.sessions",
       "django.contrib.messages",
       "django.contrib.comments",
       "django.contrib.admin",
       "django.contrib.admindocs",
       "django.contrib.staticfiles",
       "django.contrib.humanize" >>

CONTRIB_MODULE_PATH == "django.contrib"

\* what get_test_modules() finds in the two directories: (modpath, f)
TestModules ==
    << [modpath |-> None, name |-> "basic"],
       [modpath |-> None, name |-> "aggregation"],
       [modpath |-> None, name |-> "model_inheritance_same_model_name"],
       [modpath |-> CONTRIB_MODULE_PATH, name |-> "auth"],
       [modpath |-> CONTRIB_MODULE_PATH, name |-> "gis"] >>

get_test_modules == TestModules

\* the modules for which load_app returns a module (they have models)
AppsWithModels ==
    {"basic", "aggregation", "model_inheritance_same_model_name", "django.contrib.auth"}

load_app(module_label) == module_label \in AppsWithModels

\* the labels given on the command line
Labels ==
    {"basic", "basic.tests", "aggregation", "model_inheritance_same_model_name",
     "django.contrib.auth", "django.contrib.gis.tests"}

\* label.split('.') on the labels of the model
Split(label) ==
    CASE label = "basic.tests"              -> <<"basic", "tests">>
      [] label = "django.contrib"           -> <<"django", "contrib">>
      [] label = "django.contrib.auth"      -> <<"django", "contrib", "auth">>
      [] label = "django.contrib.gis"       -> <<"django", "contrib", "gis">>
      [] label = "django.contrib.gis.tests" -> <<"django", "contrib", "gis", "tests">>
      [] OTHER                              -> <<label>>

\* '.'.join(bits)
RECURSIVE Join(_)
Join(bits) ==
    IF Len(bits) = 0 THEN ""
    ELSE IF Len(bits) = 1 THEN bits[1]
    ELSE bits[1] \o "." \o Join(Tail(bits))

\* bits[:n]
Take(bits, n) == SubSeq(bits, 1, IF n < Len(bits) THEN n ELSE Len(bits))

\* x in list
In(x, list) == \E i \in 1..Len(list) : list[i] = x

\* the values the six settings may have before the script touches them:
\* Django's defaults (ROOT_URLCONF is not defined by default) and a project's
InitialSettings ==
    { [INSTALLED_APPS |-> "settings.INSTALLED_APPS", ROOT_URLCONF |-> Unset,
       TEMPLATE_DIRS |-> "()", LANGUAGE_CODE |-> "en-us", STATIC_URL |-> None,
       STATIC_ROOT |-> "", SITE_ID |-> Unset],
      [INSTALLED_APPS |-> "settings.INSTALLED_APPS", ROOT_URLCONF |-> "",
       TEMPLATE_DIRS |-> "()", LANGUAGE_CODE |-> "en", STATIC_URL |-> "/static/",
       STATIC_ROOT |-> "", SITE_ID |-> "1"],
      [INSTALLED_APPS |-> "settings.INSTALLED_APPS", ROOT_URLCONF |-> "project.urls",
       TEMPLATE_DIRS |-> "('/srv/templates',)", LANGUAGE_CODE |-> "de",
       STATIC_URL |-> "/media/", STATIC_ROOT |-> "/srv/static", SITE_ID |-> "2"] }

\* the INSTALLED_APPS of the settings module
SettingsModuleApps == <<"django.contrib.auth", "project">>

\* the list objects when the script starts: the module constant of line 42
\* and the list of the settings module
InitialLists ==
    [name \in {"ALWAYS_INSTALLED_APPS", "settings.INSTALLED_APPS"} |->
        IF name = "ALWAYS_INSTALLED_APPS" THEN ALWAYS_INSTALLED_APPS ELSE SettingsModuleApps]

\* the keys of the dict setup saves
StateKeys ==
    {"INSTALLED_APPS", "ROOT_URLCONF", "TEMPLATE_DIRS", "LANGUAGE_CODE",
     "STATIC_URL", "STATIC_ROOT"}

\* getattr(obj, name, default)
getattr(obj, name, default) == IF obj[name] = Unset THEN default ELSE obj[name]

\* line 142-145: the label of test module i
ModuleLabel(i) ==
    LET modpath == get_test_modules[i].modpath
        module_name == get_test_modules[i].name
    IN  IF modpath # None THEN Join(<<modpath, module_name>>) ELSE module_name

\* line 149-157: whether test module i, or an ancestor, was named on the
\* command line, or no module was named
ModuleFoundInLabels(i, labels, labels_set) ==
    LET module_label == ModuleLabel(i)
        match(label) ==
            \/ module_label = label
            \/ /\ Len(Split(label)) < Len(Split(module_label))
               /\ Take(Split(module_label), Len(Split(label))) = Split(label)
    IN  IF labels = <<>> THEN TRUE ELSE \E l \in labels_set : match(l)

\* line 141-165: the list `apps` after the test modules from i on were loaded
\* and appended
RECURSIVE LoadTestModules(_, _, _, _)
LoadTestModules(apps, labels, labels_set, i) ==
    IF i > Len(get_test_modules) THEN apps
    ELSE LET module_label == ModuleLabel(i)
             apps1 == IF /\ ModuleFoundInLabels(i, labels, labels_set)
                         /\ load_app(module_label)
                         /\ ~In(module_label, apps)
                      THEN Append(apps, module_label)
                      ELSE apps
         IN  LoadTestModules(apps1, labels, labels_set, i + 1)

\* what setup prints from test module i on, at verbosity 2 and above
RECURSIVE Importing(_, _, _)
Importing(labels, labels_set, i) ==
    IF i > Len(get_test_modules) THEN <<>>
    ELSE (IF ModuleFoundInLabels(i, labels, labels_set)
          THEN <<Event("stdout", "Importing application " \o get_test_modules[i].name)>>
          ELSE <<>>)
         \o Importing(labels, labels_set, i + 1)

\* what setup prints
SetupOutput(verbosity, labels, labels_set, parallel) ==
    (IF verbosity >= 1
     THEN <<Event("stdout", IF parallel > 1
                            THEN "Testing against Django installed in ... with processes"
                            ELSE "Testing against Django installed in ...")>>
     ELSE <<>>)
    \o
    (IF verbosity >= 2 THEN Importing(labels, labels_set, 1) ELSE <<>>)

\* setup(verbosity, test_labels, parallel): the dict it returns, and the
\* settings, the list objects and the logger as it leaves them
setup(s, l, h, verbosity, labels, parallel) ==
    LET saved == [INSTALLED_APPS |-> s.INSTALLED_APPS,
                  ROOT_URLCONF   |-> getattr(s, "ROOT_URLCONF", ""),
                  TEMPLATE_DIRS  |-> s.TEMPLATE_DIRS,
                  LANGUAGE_CODE  |-> s.LANGUAGE_CODE,
                  STATIC_URL     |-> s.STATIC_URL,
                  STATIC_ROOT    |-> s.STATIC_ROOT]
        s1 == [s EXCEPT !.INSTALLED_APPS = "ALWAYS_INSTALLED_APPS",
                        !.ROOT_URLCONF = "urls",
                        !.STATIC_URL = "/static/",
                        !.STATIC_ROOT = "TEMP_DIR/static",
                        !.TEMPLATE_DIRS = "('RUNTESTS_DIR/templates',)",
                        !.LANGUAGE_CODE = "en",
                        !.SITE_ID = "1"]
        bits(label) == IF Take(Split(label), 2) = <<"django", "contrib">>
                       THEN Take(Split(label), 3)
                       ELSE Take(Split(label), 1)
        test_labels_set == {Join(bits(labels[i])) : i \in 1..Len(labels)}
        apps == LoadTestModules(l[s1.INSTALLED_APPS], labels, test_labels_set, 1)
    IN  [state |-> saved,
         settings |-> s1,
         lists |-> [l EXCEPT ![s1.INSTALLED_APPS] = apps],
         handlers |-> IF verbosity > 0 THEN h + 1 ELSE h,
         out |-> SetupOutput(verbosity, labels, test_labels_set, parallel),
         raised |-> FALSE]

\* the parameters of setup, and a call with positional arguments: Python
\* raises TypeError when their number is not that of the parameters
setup_parameters == <<"verbosity", "test_labels", "parallel">>

call_setup(s, l, h, args) ==
    IF Len(args) # Len(setup_parameters)
    THEN [state |-> Unset, settings |-> s, lists |-> l, handlers |-> h, out |-> <<>>,
          raised |-> TRUE]
    ELSE setup(s, l, h, args[1], args[2], args[3])

\* teardown(state): every saved key is set back
teardown(s, saved) ==
    [k \in DOMAIN s |-> IF k \in DOMAIN saved THEN saved[k] ELSE s[k]]

\* the value of a setting: a list reference stands for the list's content
ValueOf(s, l, key) == IF key = "INSTALLED_APPS" THEN l[s[key]] ELSE s[key]

\* ---- the script, from "if __name__ == '__main__'" on ----------------------

RECURSIVE SeqsUpTo(_, _)
SeqsUpTo(S, n) ==
    IF n = 0 THEN {<<>>}
    ELSE LET shorter == SeqsUpTo(S, n - 1)
         IN  shorter \cup {Append(q, x) : q \in shorter, x \in S}

\* the named test of --bisect and --pair
NamedTests == {"basic", "aggregation"}

Options ==
    { [bisect |-> b, pair |-> p, modules |-> m, verbosity |-> v, parallel |-> n] :
        b \in {None} \cup NamedTests, p \in {None, "basic"},
        m \in SeqsUpTo(Labels, MaxModules), v \in {0, 1, 2}, n \in {0, 2} }

InitRun ==
    /\ options \in Options
    /\ settings \in InitialSettings
    /\ lists = InitialLists
    /\ state = Unset
    /\ pc = "main"
    /\ out = <<>>
    /\ handlers = 0
    /\ failing \in IF options.bisect = None /\ options.pair = None
                   THEN {{}}
                   ELSE SUBSET {"basic", "aggregation", "django.contrib.auth"}
    /\ failures = 0
    /\ before = Unset
    /\ exit_status = -1

\* line 385-386: bisect_tests(options.bisect, options, options.modules), whose
\* first statement is setup(int(options.verbosity), test_labels)
BisectTests ==
    /\ pc = "main"
    /\ options.bisect # None
    /\ LET r == call_setup(settings, lists, handlers, <<options.verbosity, options.modules>>)
       IN  /\ before' = [k \in StateKeys |-> ValueOf(settings, lists, k)]
           /\ state' = r.state
           /\ settings' = r.settings
           /\ lists' = r.lists
           /\ handlers' = r.handlers
           /\ out' = out \o r.out
           /\ pc' = IF r.raised THEN "raised" ELSE "bisect_tests"
           /\ exit_status' = IF r.raised THEN 1 ELSE exit_status
    /\ UNCHANGED <<options, failing, failures, dbvars, bisvars, pairvars>>

\* line 387-388: paired_tests(options.pair, options, options.modules), whose
\* first statement is setup(int(options.verbosity), test_labels)
PairedTests ==
    /\ pc = "main"
    /\ options.bisect = None
    /\ options.pair # None
    /\ LET r == call_setup(settings, lists, handlers, <<options.verbosity, options.modules>>)
       IN  /\ before' = [k \in StateKeys |-> ValueOf(settings, lists, k)]
           /\ state' = r.state
           /\ settings' = r.settings
           /\ lists' = r.lists
           /\ handlers' = r.handlers
           /\ out' = out \o r.out
           /\ pc' = IF r.raised THEN "raised" ELSE "paired_tests"
           /\ exit_status' = IF r.raised THEN 1 ELSE exit_status
    /\ UNCHANGED <<options, failing, failures, dbvars, bisvars, pairvars>>

\* line 390-391 and 198: django_tests(...) calls setup(verbosity, test_labels, parallel)
DjangoTestsSetup ==
    /\ pc = "main"
    /\ options.bisect = None
    /\ options.pair = None
    /\ LET r == call_setup(settings, lists, handlers,
                           <<options.verbosity, options.modules, options.parallel>>)
       IN  /\ before' = [k \in StateKeys |-> ValueOf(settings, lists, k)]
           /\ state' = r.state
           /\ settings' = r.settings
           /\ lists' = r.lists
           /\ handlers' = r.handlers
           /\ out' = out \o r.out
           /\ pc' = IF r.raised THEN "raised" ELSE "run_tests"
           /\ exit_status' = IF r.raised THEN 1 ELSE exit_status
    /\ UNCHANGED <<options, failing, failures, dbvars, bisvars, pairvars>>

\* line 204-211: the runner runs the tests and returns the number of failures
DjangoTestsRun ==
    /\ pc = "run_tests"
    /\ \E n \in 0..MaxFailures : failures' = n
    /\ pc' = "teardown"
    /\ UNCHANGED <<options, settings, lists, state, out, handlers, failing, before, exit_status,
                   dbvars, bisvars, pairvars>>

\* line 213-214: teardown(state); return failures
DjangoTestsTeardown ==
    /\ pc = "teardown"
    /\ settings' = teardown(settings, state)
    /\ pc' = "returned"
    /\ UNCHANGED <<options, lists, state, out, handlers, failing, failures, before, exit_status,
                   dbvars, bisvars, pairvars>>

\* line 396-397: sys.exit(bool(failures)) if there were failures
MainExit ==
    /\ pc = "returned"
    /\ exit_status' = IF failures # 0 THEN 1 ELSE 0
    /\ pc' = "exited"
    /\ UNCHANGED <<options, settings, lists, state, out, handlers, failing, failures, before,
                   dbvars, bisvars, pairvars>>

NextRun ==
    \/ BisectTests
    \/ PairedTests
    \/ DjangoTestsSetup
    \/ DjangoTestsRun
    \/ DjangoTestsTeardown
    \/ MainExit

(***************************************************************************)
(* Part III.  bisect_tests below its setup call (runtests.py, 220-271)     *)
(***************************************************************************)

\* ---- bounds of the model ------------------------------------------------
MaxLabels == 4       \* most labels handed to bisect_tests

\* the labels handed to bisect_tests
BisectLabels ==
    {"basic", "aggregation", "django.contrib.auth", "model_inheritance_same_model_name"}

\* get_installed(): the names of the loaded apps
get_installed ==
    <<"django.contrib.auth", "basic", "aggregation", "model_inheritance_same_model_name">>

\* list.remove(x) inside try/except ValueError: the first x is dropped
RECURSIVE remove(_, _)
remove(list, x) ==
    IF list = <<>> THEN <<>>
    ELSE IF Head(list) = x THEN Tail(list)
    ELSE <<Head(list)>> \o remove(Tail(list), x)

\* the candidates after lines 220-230
Candidates(labels, named) ==
    remove(remove(IF labels # <<>> THEN labels ELSE get_installed, named),
           "model_inheritance_same_model_name")

\* a variant that forgets to halve
midpoint_is_the_length(labels) == Len(labels)

\* line 243: midpoint = len(test_labels)/2, an integer division
midpoint(labels) == Len(labels) \div 2

\* test_labels[:midpoint] and test_labels[midpoint:]
first_half(labels) == SubSeq(labels, 1, midpoint(labels))
second_half(labels) == SubSeq(labels, midpoint(labels) + 1, Len(labels))

\* the labels of a sequence
Range(list) == {list[i] : i \in 1..Len(list)}

Said(text, arg) == [text |-> text, arg |-> arg]

InitBisect ==
    /\ bpc = "start"
    /\ test_labels \in SeqsUpTo(BisectLabels, MaxLabels)
    /\ bisection_label \in NamedTests
    /\ iteration = 0
    /\ report = <<>>
    /\ failed_with = {}
    /\ passes = 0
    /\ initial_len = 0
    /\ prev_len = 0

\* lines 220-241: the candidate list is made, iteration = 1
BisectPrepare ==
    /\ bpc = "start"
    /\ test_labels' = Candidates(test_labels, bisection_label)
    /\ report' = <<Said("Bisecting test suite", "")>>
    /\ iteration' = 1
    /\ initial_len' = Len(test_labels')
    /\ prev_len' = Len(test_labels') + 1
    /\ bpc' = "loop"
    /\ UNCHANGED <<bisection_label, failed_with, passes, dbvars, runvars, pairvars>>

\* lines 242-268: one pass of the loop; failures_a and failures_b are what
\* the two subprocess.call return
BisectPass(failures_a, failures_b) ==
    /\ bpc = "loop"
    /\ Len(test_labels) > 1
    /\ LET test_labels_a == first_half(test_labels) \o <<bisection_label>>
           test_labels_b == second_half(test_labels) \o <<bisection_label>>
           banner == <<Said("Pass a: Running the first half of the test suite", ToString(iteration)),
                       Said("Pass b: Running the second half of the test suite", ToString(iteration))>>
       IN  /\ failed_with' = failed_with
                \cup (IF failures_a # 0 THEN Range(test_labels_a) ELSE {})
                \cup (IF failures_b # 0 THEN Range(test_labels_b) ELSE {})
           /\ passes' = passes + 1
           /\ prev_len' = Len(test_labels)
           /\ IF failures_a # 0 /\ failures_b = 0
              THEN /\ report' = report \o banner \o <<Said("Problem found in first half. Bisecting again...", "")>>
                   /\ iteration' = iteration + 1
                   /\ test_labels' = SubSeq(test_labels_a, 1, Len(test_labels_a) - 1)
                   /\ bpc' = "loop"
              ELSE IF failures_b # 0 /\ failures_a = 0
              THEN /\ report' = report \o banner \o <<Said("Problem found in second half. Bisecting again...", "")>>
                   /\ iteration' = iteration + 1
                   /\ test_labels' = SubSeq(test_labels_b, 1, Len(test_labels_b) - 1)
                   /\ bpc' = "loop"
              ELSE IF failures_a # 0 /\ failures_b # 0
              THEN /\ report' = report \o banner \o <<Said("Multiple sources of failure found", "")>>
                   /\ bpc' = "report"
                   /\ UNCHANGED <<iteration, test_labels>>
              ELSE /\ report' = report \o banner
                                   \o <<Said("No source of failure found... try pair execution (--pair)", "")>>
                   /\ bpc' = "report"
                   /\ UNCHANGED <<iteration, test_labels>>
    /\ UNCHANGED <<bisection_label, initial_len, dbvars, runvars, pairvars>>

\* lines 270-271, reached by a break or when the loop condition fails
BisectReport ==
    /\ \/ bpc = "report"
       \/ bpc = "loop" /\ ~(Len(test_labels) > 1)
    /\ report' = IF Len(test_labels) = 1
                 THEN Append(report, Said("Source of error", test_labels[1]))
                 ELSE report
    /\ bpc' = "done"
    /\ UNCHANGED <<test_labels, bisection_label, iteration, failed_with, passes,
                   initial_len, prev_len, dbvars, runvars, pairvars>>

NextBisect ==
    \/ BisectPrepare
    \/ \E failures_a \in {0, 1}, failures_b \in {0, 1} : BisectPass(failures_a, failures_b)
    \/ BisectReport

(***************************************************************************)
(* Part IV.  paired_tests below its setup call (runtests.py, 278-308)      *)
(***************************************************************************)

\* the state of the script when the setup call of line 276 has returned: the
\* settings are redirected and `state` holds the saved ones. parallel, which
\* the call does not pass, is taken from the command line; it changes setup's
\* first message only
InitPair ==
    /\ options \in {o \in Options : o.bisect = None /\ o.pair # None}
    /\ failing \in SUBSET {"basic", "aggregation", "django.contrib.auth"}
    /\ \E s \in InitialSettings :
          LET r == setup(s, InitialLists, 0, options.verbosity, options.modules,
                         options.parallel)
          IN  /\ before = [k \in StateKeys |-> ValueOf(s, InitialLists, k)]
              /\ state = r.state
              /\ settings = r.settings
              /\ lists = r.lists
              /\ handlers = r.handlers
              /\ out = r.out
    /\ pc = "paired_tests"
    /\ failures = 0
    /\ exit_status = -1
    /\ pair_labels = <<>>
    /\ pair_i = 0

\* lines 278-297: the candidate list is made
PairedPrepare ==
    /\ pc = "paired_tests"
    /\ pair_labels' = Candidates(options.modules, options.pair)
    /\ out' = Append(out, Event("stdout", "Trying paired execution"))
    /\ pair_i' = 0
    /\ pc' = "pair_loop"
    /\ UNCHANGED <<options, settings, lists, state, handlers, failing, failures, before,
                   exit_status, dbvars, bisvars>>

\* lines 299-305: one turn of the for loop; the subprocess fails when the
\* label is one of those that fail with the paired test; on a failure the
\* function returns from inside the loop
PairedCheck ==
    /\ pc = "pair_loop"
    /\ pair_i < Len(pair_labels)
    /\ LET label == pair_labels[pair_i + 1]
           checking == Event("stdout", ToString(pair_i + 1) \o " of " \o ToString(Len(pair_labels))
                                       \o ": Check test pairing with " \o label)
       IN  /\ failures' = IF label \in failing THEN 1 ELSE 0
           /\ IF failures' # 0
              THEN /\ out' = out \o <<checking, Event("stdout", "Found problem pair with " \o label)>>
                   /\ pc' = "returned"
              ELSE /\ out' = Append(out, checking)
                   /\ pc' = "pair_loop"
           /\ pair_i' = pair_i + 1
    /\ UNCHANGED <<options, settings, lists, state, handlers, failing, before, exit_status,
                   pair_labels, dbvars, bisvars>>

\* lines 307-308, when the loop is through: the message, teardown(state), and
\* the function returns
PairedTeardown ==
    /\ pc = "pair_loop"
    /\ ~(pair_i < Len(pair_labels))
    /\ out' = Append(out, Event("stdout", "No problem pair found"))
    /\ settings' = teardown(settings, state)
    /\ pc' = "returned"
    /\ UNCHANGED <<options, lists, state, handlers, failing, failures, before, exit_status,
                   pairvars, dbvars, bisvars>>

\* line 388 and the end of the script: paired_tests returned, the script
\* ends with status 0
PairedExit ==
    /\ pc = "returned"
    /\ exit_status' = 0
    /\ pc' = "exited"
    /\ UNCHANGED <<options, settings, lists, state, out, handlers, failing, failures, before,
                   pairvars, dbvars, bisvars>>

NextPaired ==
    \/ PairedPrepare
    \/ PairedCheck
    \/ PairedTeardown
    \/ PairedExit

(***************************************************************************)
(* The specifications                                                      *)
(***************************************************************************)

\* Part I at rest
IdleDb ==
    /\ conns = [a \in Aliases |-> [NAME |-> MEMORY, TEST_NAME |-> None]]
    /\ files = <<>>
    /\ last = NoCall
    /\ proc = Running
    /\ signatures = [a \in Aliases |-> <<>>]

\* Part II at rest
IdleRun ==
    /\ options = [bisect |-> None, pair |-> None, modules |-> <<>>, verbosity |-> 1,
                  parallel |-> 0]
    /\ settings = CHOOSE s \in InitialSettings : s.ROOT_URLCONF = Unset
    /\ lists = InitialLists
    /\ state = Unset
    /\ pc = "main"
    /\ out = <<>>
    /\ handlers = 0
    /\ failing = {}
    /\ failures = 0
    /\ before = Unset
    /\ exit_status = -1

\* Part III at rest
IdleBisect ==
    /\ bpc = "start"
    /\ test_labels = <<>>
    /\ bisection_label = None
    /\ iteration = 0
    /\ report = <<>>
    /\ failed_with = {}
    /\ passes = 0
    /\ initial_len = 0
    /\ prev_len = 0

\* Part IV at rest
IdlePair ==
    /\ pair_labels = <<>>
    /\ pair_i = 0

\* runtests.py run as a script
Init == InitRun /\ IdleDb /\ IdleBisect /\ IdlePair
Spec == Init /\ [][NextRun]_vars

\* the calls of DatabaseCreation on one connection
InitCreation == InitDb /\ IdleRun /\ IdleBisect /\ IdlePair
SpecDb == InitCreation /\ [][NextDb]_vars

\* test_db_signature over every pair of connection settings
InitSignatures == InitSig /\ IdleRun /\ IdleBisect /\ IdlePair
SpecSig == InitSignatures /\ [][NextSig]_vars

\* bisect_tests from line 220 on, for every candidate list and every
\* sequence of subprocess results
InitBisection == InitBisect /\ IdleDb /\ IdleRun /\ IdlePair
SpecBisect == InitBisection /\ [][NextBisect]_vars

\* the same, the interpreter running the function to its end: every
\* subprocess.call returns and the next statement is executed
SpecBisectFair == SpecBisect /\ WF_vars(NextBisect)

\* paired_tests from line 278 on, for every candidate list and every set of
\* labels that fail with the paired test
InitPairing == InitPair /\ IdleDb /\ IdleBisect
SpecPaired == InitPairing /\ [][NextPaired]_vars

(***************************************************************************)
(* Properties of Part I                                                    *)
(***************************************************************************)

Kinds(events) == {events[i].kind : i \in 1..Len(events)}

\* the settings_dict the last call worked on
LastDict == conns[last.alias]

\* the clone target of the last call
LastTarget == get_test_db_clone_settings(LastDict, last.number).NAME

\* C3: cloning is gated on the in-memory test. With an in-memory source NAME,
\* _clone_test_db deletes nothing, copies nothing and leaves the file system
\* as it was, and get_test_db_clone_settings returns the original settings;
\* a deletion or a copy (attempted or done) happens only for a file source,
\* and then changes no path but the clone target.
C3_CloneGatedOnInMemory ==
    /\ (last.op = "_clone_test_db" /\ is_in_memory_db(LastDict.NAME))
          => /\ last.events = <<>>
             /\ files = last.before
             /\ proc = Running
    /\ (last.op = "get_test_db_clone_settings" /\ is_in_memory_db(LastDict.NAME))
          => last.settings = LastDict
    /\ (last.op = "_clone_test_db" /\ (last.events # <<>> \/ files # last.before))
          => /\ LastDict.NAME \in FileNames
             /\ \A p \in (DOMAIN files) \cup (DOMAIN last.before) :
                   p # LastTarget => /\ p \in DOMAIN files
                                     /\ p \in DOMAIN last.before
                                     /\ files[p] = last.before[p]

\* a clone call on an in-memory database while files exist
C3_Witness ==
    /\ last.op = "_clone_test_db"
    /\ is_in_memory_db(LastDict.NAME)
    /\ DOMAIN files # {}

\* C4: the only failure handling is "report the error, exit". In
\* _create_test_db and _clone_test_db a failed removal of the old file is
\* followed by the error message on stderr and sys.exit(2) and by nothing
\* else (no copy), the file system being left as it was; a failed copy in
\* _clone_test_db is followed by its error message and sys.exit(2).
C4_FailureReportsAndExits ==
    LET n == Len(last.events)
    IN  /\ (last.op \in {"_create_test_db", "_clone_test_db"}
              /\ "remove_failed" \in Kinds(last.events))
              => /\ n >= 2
                 /\ last.events[n-1].kind = "remove_failed"
                 /\ last.events[n] = Event("stderr", "Got an error deleting the old test database")
                 /\ Kinds(last.events) \cap {"remove", "copy", "copy_failed"} = {}
                 /\ last.exit = 2
                 /\ proc = "exited"
                 /\ files = last.before
        /\ (last.op = "_clone_test_db" /\ "copy_failed" \in Kinds(last.events))
              => /\ last.events[n-1].kind = "copy_failed"
                 /\ last.events[n] = Event("stderr", "Got an error cloning the test database")
                 /\ "copy" \notin Kinds(last.events)
                 /\ last.exit = 2
                 /\ proc = "exited"

\* _clone_test_db met an old clone it could not remove
C4_Witness ==
    /\ last.op = "_clone_test_db"
    /\ "remove_failed" \in Kinds(last.events)
    /\ LastDict.NAME \in DOMAIN last.before

\* C5: test_db_signature identifies the test database: two connections with
\* different test database files, or with in-memory test databases under
\* different aliases, have different signatures, and two connections with
\* the same test database file have the same signature.
C5_SignatureIdentifiesTestDb ==
    \A a \in Aliases, b \in Aliases :
        (a # b /\ signatures[a] # <<>> /\ signatures[b] # <<>>)
        => LET ta == _get_test_db_name(conns[a])
               tb == _get_test_db_name(conns[b])
           IN  /\ ((ta # MEMORY /\ tb # MEMORY /\ ta # tb) \/ (ta = MEMORY /\ tb = MEMORY))
                     => signatures[a] # signatures[b]
               /\ (ta # MEMORY /\ ta = tb) => signatures[a] = signatures[b]

\* C6: keepdb keeps an existing clone. After _clone_test_db with keepdb on a
\* file database whose clone target exists, nothing was removed or copied and
\* every file, the target among them, has the content it had.
C6_KeepdbKeepsClone ==
    (/\ last.op = "_clone_test_db"
     /\ last.keepdb
     /\ ~is_in_memory_db(LastDict.NAME)
     /\ LastTarget \in DOMAIN last.before)
    => /\ LastTarget \in DOMAIN files
       /\ files[LastTarget] = last.before[LastTarget]
       /\ files = last.before
       /\ last.events = <<>>
       /\ proc = Running

\* keepdb met an old clone whose content differs from the source's
C6_Witness ==
    /\ last.op = "_clone_test_db"
    /\ last.keepdb
    /\ LastDict.NAME \in DOMAIN last.before
    /\ LastTarget \in DOMAIN last.before
    /\ last.before[LastTarget] # last.before[LastDict.NAME]

\* the first two parts of C9 and its third part, shared by the claim as
\* written and as amended
C9_Cancelled ==
    (/\ last.op = "_create_test_db"
     /\ _get_test_db_name(LastDict) \in DOMAIN last.before
     /\ ~last.autoclobber
     /\ last.confirm # "yes")
    => /\ Event("stdout", "Tests cancelled.") \in {last.events[i] : i \in 1..Len(last.events)}
       /\ last.exit = 1
       /\ proc = "exited"
       /\ files = last.before

C9_InMemory ==
    (last.op = "_create_test_db" /\ LastDict.TEST_NAME \in {None, "", MEMORY})
    => /\ last.events = <<>>
       /\ files = last.before
       /\ last.ret = MEMORY
       /\ proc = Running

\* C9 as written: _create_test_db on an existing test database file. Without
\* autoclobber and with an answer other than 'yes' it prints 'Tests
\* cancelled.', exits with status 1 and leaves the file; with autoclobber it
\* does not prompt and the file is removed; for an in-memory test database it
\* touches no file, prompts nobody and returns ':memory:'.
C9_AsWritten ==
    /\ C9_Cancelled
    /\ (/\ last.op = "_create_test_db"
        /\ _get_test_db_name(LastDict) \in DOMAIN last.before
        /\ last.autoclobber)
       => /\ "input" \notin Kinds(last.events)
          /\ _get_test_db_name(LastDict) \notin DOMAIN files
    /\ C9_InMemory

\* C9 amended: as written, except that with autoclobber the file is removed
\* unless os.remove fails, and then the call exits with status 2 and the file
\* stays.
C9_CreateTestDb ==
    /\ C9_Cancelled
    /\ (/\ last.op = "_create_test_db"
        /\ _get_test_db_name(LastDict) \in DOMAIN last.before
        /\ last.autoclobber)
       => /\ "input" \notin Kinds(last.events)
          /\ \/ /\ "remove" \in Kinds(last.events)
                /\ files = os_remove(last.before, _get_test_db_name(LastDict))
                /\ proc = Running
             \/ /\ "remove_failed" \in Kinds(last.events)
                /\ files = last.before
                /\ last.exit = 2
    /\ C9_InMemory

\* autoclobber removed an existing test database file
C9_Witness ==
    /\ last.op = "_create_test_db"
    /\ last.autoclobber
    /\ _get_test_db_name(LastDict) \in DOMAIN last.before
    /\ _get_test_db_name(LastDict) \notin DOMAIN files

(***************************************************************************)
(* Properties of Part II                                                   *)
(***************************************************************************)

\* the named test and the candidate list of a --bisect or --pair run
NamedTest == IF options.bisect # None THEN options.bisect ELSE options.pair
RunCandidates == Candidates(options.modules, NamedTest)

\* the script has ended
Ended == pc \in {"exited", "raised"}

\* C1: bisect_tests discovers the test that causes a failure when combined
\* with the named test: when exactly one candidate label L makes a run fail,
\* bisect_tests ends having printed 'Source of error' for L and for no other
\* label.
C1_BisectReportsTheCulprit ==
    (Ended /\ options.bisect # None)
    => \A L \in Range(RunCandidates) :
          (failing \cap Range(RunCandidates) = {L})
          => {out[i] : i \in 1..Len(out)} \cap {Event("stdout", "Source of error: " \o c) : c \in Labels}
                = {Event("stdout", "Source of error: " \o L)}

\* C2: paired_tests is a linear scan: it ends having reported the first
\* candidate whose pair fails as the problem pair, and it reports 'No problem
\* pair found' exactly when no candidate's pair fails.
C2_PairedScanReports ==
    (Ended /\ options.bisect = None /\ options.pair # None)
    => LET printed == {out[i] : i \in 1..Len(out)}
           bad == {i \in 1..Len(RunCandidates) : RunCandidates[i] \in failing}
       IN  /\ (bad = {}) <=> (Event("stdout", "No problem pair found") \in printed)
           /\ \A i \in bad :
                 (\A j \in bad : i <= j)
                 => Event("stdout", "Found problem pair with " \o RunCandidates[i]) \in printed

\* C7: teardown restores the old settings: once django_tests has run setup
\* and teardown, each of INSTALLED_APPS, ROOT_URLCONF, TEMPLATE_DIRS,
\* LANGUAGE_CODE, STATIC_URL and STATIC_ROOT has the value it had before
\* setup was called.
C7_TeardownRestoresSettings ==
    (pc \in {"returned", "exited"})
    => \A k \in StateKeys : ValueOf(settings, lists, k) = before[k]

(***************************************************************************)
(* Properties of Part III                                                  *)
(***************************************************************************)

\* the loop's progress: in each pass with more than one candidate both halves
\* are non-empty and strictly shorter than the list, a pass that does not
\* break out leaves a strictly shorter list, and the loop body runs at most
\* as many times as there were candidates at the start
C8_Progress ==
    /\ (bpc = "loop" /\ Len(test_labels) > 1)
          => /\ Len(first_half(test_labels)) >= 1
             /\ Len(second_half(test_labels)) >= 1
             /\ Len(first_half(test_labels)) < Len(test_labels)
             /\ Len(second_half(test_labels)) < Len(test_labels)
             /\ first_half(test_labels) \o second_half(test_labels) = test_labels
    /\ (bpc = "loop" /\ passes > 0) => Len(test_labels) < prev_len
    /\ (bpc # "start") => passes <= initial_len
    /\ (bpc = "done") => (passes = 0 <=> initial_len <= 1)

TornDown == \A k \in StateKeys : settings[k] = state[k]

C12_AlwaysInstalledAppsUnchanged ==
    /\ lists["ALWAYS_INSTALLED_APPS"] = ALWAYS_INSTALLED_APPS
    /\ LET apps == lists[settings.INSTALLED_APPS]
       IN  \A i \in 1..Len(apps), j \in 1..Len(apps) : i # j => apps[i] # apps[j]

====
